---- MODULE Spec2Model ----
(***************************************************************************)
(* Model of pykern.pksetup: metadata assembly (setup, _state, _version,    *)
(* _readme, _find_files) and the command shims setuptools dispatches to    *)
(* (PyTest.run_tests, Tox.run, PKDeploy.run).                              *)
(*                                                                         *)
(* A version string "dddddddd.ddd" is a record [int, frac] of two digit    *)
(* sequences: the text before the first dot and the text after it.         *)
(***************************************************************************)
EXTENDS Integers, Sequences, FiniteSets, TLC

VARIABLES
    pc,          \* position in setup() / the dispatched command
    ret,         \* where Tox.run returns to: "setup" or "pkdeploy"
    cmd,         \* command setuptools.setup dispatches to
    dry_run,     \* self.distribution.dry_run
    env,         \* os.getenv results, recorded when read
    readmes,     \* README.* files present in the working directory
    fs,          \* generated files: name -> [exists, lines]
    gitExists,   \* os.path.isdir('.git')
    gitModified, \* git ls-files --modified --deleted is non-empty
    commitTime,  \* git log -1 --format=%ct, as a broken-down time
    utcnow,      \* datetime.datetime.utcnow()
    pkgInfo,     \* <name>.egg-info/PKG-INFO: absent, or its Version field
    v1,          \* _version_from_pkg_info result
    v2,          \* _version_from_git result
    state,       \* the local dict `state` of _state
    base,        \* the metadata record handed to setuptools.setup
    trace,       \* file and subprocess effects in the order they happened
    pending,     \* how the last try block ended: the exception or exit status
                 \* that goes on after its finally clause
    sdist,       \* number of files glob.glob('.tox/dist/*-*.*') returned
    upload,      \* the _read_pypirc result handed to the upload command
    outcome      \* how the program ended: [kind, msg]; kind "running" until then

vars == <<pc, ret, cmd, dry_run, env, readmes, fs, gitExists, gitModified,
          commitTime, utcnow, pkgInfo, v1, v2, state, base, trace, pending,
          sdist, upload, outcome>>

----------------------------------------------------------------------------
(* Bounds of the model *)

\* days of January 2015 the clocks range over
MaxDay == 2

\* most files the sdist glob is taken to match
MaxSdist == 2

----------------------------------------------------------------------------
(* Digit strings *)

Digit == 0..9

RECURSIVE Pow10(_)
Pow10(k) == IF k = 0 THEN 1 ELSE 10 * Pow10(k - 1)

RECURSIVE Pow2(_)
Pow2(k) == IF k = 0 THEN 1 ELSE 2 * Pow2(k - 1)

\* int('...') of a non-empty digit string
RECURSIVE DigitsToNat(_)
DigitsToNat(ds) ==
    IF ds = << >> THEN 0
    ELSE 10 * DigitsToNat(SubSeq(ds, 1, Len(ds) - 1)) + ds[Len(ds)]

\* '%02d' and friends: n as exactly w digits
RECURSIVE NatToDigits(_, _)
NatToDigits(n, w) ==
    IF w = 0 THEN << >>
    ELSE Append(NatToDigits(n \div 10, w - 1), n % 10)

\* str(int(ds)): leading zeros dropped, one digit at least
RECURSIVE StripZeros(_)
StripZeros(ds) ==
    IF Len(ds) > 1 /\ ds[1] = 0 THEN StripZeros(Tail(ds)) ELSE ds

----------------------------------------------------------------------------
(* Versions *)

\* Python's None where a version string is expected
NoVersion == [int |-> << >>, frac |-> << >>]

\* `if v:` on a str-or-None
Truthy(v) == v # NoVersion

\* time of day values the clocks take: hhmmss as <<h, m, s>>
TimesOfDay == { <<0, 0, 0>>, <<0, 0, 5>>, <<9, 30, 0>>, <<10, 0, 0>>, <<23, 59, 59>> }

Timestamps == [day : 1..MaxDay, tod : TimesOfDay]

\* chronological order of two timestamps
SecondsOfDay(tod) == tod[1] * 3600 + tod[2] * 60 + tod[3]
Earlier(t, u) ==
    \/ t.day < u.day
    \/ t.day = u.day /\ SecondsOfDay(t.tod) < SecondsOfDay(u.tod)

\* vt.strftime('%Y%m%d.%H%M%S')
strftime(vt) ==
    [int  |-> NatToDigits(2015, 4) \o NatToDigits(1, 2) \o NatToDigits(vt.day, 2),
     frac |-> NatToDigits(vt.tod[1], 2) \o NatToDigits(vt.tod[2], 2)
              \o NatToDigits(vt.tod[3], 2)]

\* str(pkg_resources.parse_version(v)): every release segment goes through int()
parse_version(v) == [int |-> StripZeros(v.int), frac |-> StripZeros(v.frac)]

----------------------------------------------------------------------------
(* float(): the nearest IEEE double of the decimal string int.frac, as the  *)
(* pair <<hi, lo>>: hi the integer part, lo the fraction in units of        *)
(* 2^-FracBits(hi), rounded half to even.  Exact for 2^22 <= int < 2^31 and *)
(* at most 9 fraction digits (all intermediate values fit in 31 bits).      *)

\* floor(log2(n)) for n >= 1
RECURSIVE Log2(_)
Log2(n) == IF n < 2 THEN 0 ELSE 1 + Log2(n \div 2)

\* fraction bits of a double whose integer part is n: 53 - (Log2(n) + 1)
FracBits(n) == 52 - Log2(n)

\* the first `bits` binary digits of rem/den, and what is left
RECURSIVE FracMant(_, _, _, _)
FracMant(rem, den, bits, acc) ==
    IF bits = 0 THEN [m |-> acc, rem |-> rem]
    ELSE IF 2 * rem >= den
         THEN FracMant(2 * rem - den, den, bits - 1, 2 * acc + 1)
         ELSE FracMant(2 * rem, den, bits - 1, 2 * acc)

float(v) ==
    LET n   == DigitsToNat(v.int)
        den == Pow10(Len(v.frac))
        b   == FracBits(n)
        r   == FracMant(DigitsToNat(v.frac), den, b, 0)
        up  == \/ 2 * r.rem > den
               \/ 2 * r.rem = den /\ r.m % 2 = 1
        m   == IF up THEN r.m + 1 ELSE r.m
    IN  IF m = Pow2(b) THEN <<n + 1, 0>> ELSE <<n, m>>

\* a > b on two floats
FloatGreater(a, b) == a[1] > b[1] \/ (a[1] = b[1] /\ a[2] > b[2])

----------------------------------------------------------------------------
(* Version derivation *)

\* The Version field of a PKG-INFO file, "Version: <int>.<frac><suffix>\n"
PkgInfoAbsent == [exists |-> FALSE, int |-> << >>, frac |-> << >>, suffix |-> ""]
PkgInfoFile(i, f, sfx) == [exists |-> TRUE, int |-> i, frac |-> f, suffix |-> sfx]

\* re.search(r'Version:\s*(\d{8}\.\d+)\s', d): eight digits, a dot, one digit
\* or more, then white space
version_re_match(p) == Len(p.int) = 8 /\ Len(p.frac) >= 1 /\ p.suffix = ""

\* _version_from_pkg_info: None on IOError or when the pattern does not match
version_from_pkg_info(p) ==
    IF ~p.exists THEN NoVersion
    ELSE IF version_re_match(p) THEN [int |-> p.int, frac |-> p.frac]
    ELSE NoVersion

\* _version_from_git: None without a repository; else the time of the last
\* commit, or the current time when tracked files are modified or deleted
version_from_git(exists, modified, ct, now) ==
    IF ~exists THEN NoVersion
    ELSE LET vt == IF modified THEN now ELSE ct
         IN  parse_version(strftime(vt))

\* _version that insists on a repository
version_needs_git(a, b) ==
    IF Truthy(b)
    THEN [raised |-> FALSE,
          value  |-> IF Truthy(a) /\ FloatGreater(float(a), float(b)) THEN a ELSE b]
    ELSE [raised |-> TRUE, value |-> NoVersion]

\* _version: [raised, value]
version(a, b) ==
    IF Truthy(a)
    THEN IF Truthy(b)
         THEN [raised |-> FALSE,
               value  |-> IF FloatGreater(float(a), float(b)) THEN a ELSE b]
         ELSE [raised |-> FALSE, value |-> a]
    ELSE IF Truthy(b)
         THEN [raised |-> FALSE, value |-> b]
         ELSE [raised |-> TRUE, value |-> NoVersion]

----------------------------------------------------------------------------
(* Files *)

ReadmeNames == <<"README.rst", "README.md", "README.txt">>

\* what _read returns for each README
ReadmeText == [n \in {"README.rst", "README.md", "README.txt"} |->
                 CASE n = "README.rst" -> "text of README.rst"
                   [] n = "README.md"  -> "text of README.md"
                   [] n = "README.txt" -> "text of README.txt"]

\* _readme: the first README that exists, in the order rst, md, txt;
\* "" stands for raising ValueError
RECURSIVE readme_from(_, _)
readme_from(present, i) ==
    IF i > Len(ReadmeNames) THEN ""
    ELSE IF ReadmeNames[i] \in present THEN ReadmeNames[i]
    ELSE readme_from(present, i + 1)
\* _readme that never looks at README.rst
readme_skip_rst(present) == readme_from(present, 2)

readme(present) == readme_from(present, 1)

GeneratedFiles == {"MANIFEST.in", "pytest.ini", "tox.ini"}

NoFile == [exists |-> FALSE, lines |-> << >>]
File(lines) == [exists |-> TRUE, lines |-> lines]

Line(op, arg) == [op |-> op, arg |-> arg]

\* how open(filename, 'w') / f.write(content) can end
WriteOutcomes == {"ok", "open_failed", "write_failed"}

\* _write that opens the file and never writes the content
write_empty(f, lines, how) == IF how = "open_failed" THEN f ELSE File(<< >>)

\* _write that opens the file for appending
write_append(f, lines, how) ==
    CASE how = "ok"           -> File(f.lines \o lines)
      [] how = "open_failed"  -> f
      [] how = "write_failed" -> f

\* _write: the file after the call; open(..., 'w') truncates before writing
write(f, lines, how) ==
    CASE how = "ok"           -> File(lines)
      [] how = "open_failed"  -> f
      [] how = "write_failed" -> File(<< >>)

\* os.remove(path) raises OSError when there is no such file
os_remove_raises(f) == ~f.exists

\* _remove that leaves the file in place
remove_nothing(f) == f

\* _remove: the file after the call; the OSError is swallowed
remove(f) == NoFile

\* the manifest text of _state, a line per element
manifest_lines(rd, dirs) ==
    << Line("#", "OVERWRITTEN by pykern.pksetup every \"python setup.py\""),
       Line("include", "LICENSE"),
       Line("include", "requirements.txt"),
       Line("include", rd) >>
    \o [i \in 1..Len(dirs) |-> Line("recursive-include", dirs[i])]

\* _find_files: git ls-files (untracked and tracked) in a repository, os.walk
\* otherwise; never raises for want of a repository.  The result is the set of
\* paths found (its order is not represented).
find_files(exists, others, tracked, walked) ==
    IF exists THEN others \cup tracked ELSE walked

----------------------------------------------------------------------------
(* Python values and the environment *)

PyNone  == "<None>"
PyFalse == "<False>"

\* a variable missing from os.environ
Unset == "<unset>"

EnvNames == {"PKSETUP_PYPI_IS_TEST", "PKSETUP_PYPI_PASSWORD", "PKSETUP_PYPI_USER",
             "PKSETUP_PKDEPLOY_IS_DEV"}

\* values a variable is given in the environments explored
EnvValues(k) ==
    CASE k = "PKSETUP_PYPI_PASSWORD" -> {Unset, "", "secret"}
      [] k = "PKSETUP_PYPI_USER"     -> {Unset, "", "user"}
      [] OTHER                       -> {Unset, "", "1"}

Environments == { e \in [EnvNames -> {Unset, "", "1", "secret", "user"}] :
                    \A k \in EnvNames : e[k] \in EnvValues(k) }

\* the environment before any command has read it
NoEnv == [k \in EnvNames |-> Unset]

\* truth value of a str, None or False
PyTruthy(x) == x \notin {PyNone, PyFalse, ""}

\* os.getenv(key, default)
getenv(e, key, default) == IF e[key] = Unset THEN default ELSE e[key]

\* PKDeploy.__assert_env: [raised, value]
assert_env(e, key, default) ==
    LET v == getenv(e, key, default)
    IN  [raised |-> v = PyNone, value |-> v]

----------------------------------------------------------------------------
(* Program state *)

Name == "pykern"

PACKAGE_DATA == "package_data"
SCRIPTS_DIR == "scripts"
PYTEST_INI_FILE == "pytest.ini"
TOX_INI_FILE == "tox.ini"

Running == [kind |-> "running", msg |-> ""]
Raised(kind, msg) == [kind |-> kind, msg |-> msg]
Returned == [kind |-> "returned", msg |-> ""]
Exit(code) == [kind |-> "exit", msg |-> code]

NoPending == [kind |-> "none", msg |-> ""]

NoUpload == [run |-> FALSE, username |-> "", password |-> "", realm |-> "",
             repository |-> ""]

EmptyState == [version |-> NoVersion, readme |-> "", long_description |-> "",
               package_data |-> {}, scripts |-> {},
               include_package_data |-> FALSE]

\* base as setup() builds it before calling _state
Base(extra) == [name |-> Name, extra_directories |-> extra, updated |-> FALSE,
                version |-> NoVersion, long_description |-> "",
                package_data |-> {}, scripts |-> {},
                include_package_data |-> FALSE]

Event(op, arg) == [op |-> op, arg |-> arg]

\* a generated file left in the working directory by an earlier run
StaleFile == File(<< Line("#", "stale") >>)

\* The working directory setup() starts in: clocks from T, PKG-INFO files from
\* P, README sets from R, extra_directories from X.
InitFrom(T, P, R, X) ==
    /\ pc = "state_version"
    /\ ret = "setup"
    /\ cmd = "none"
    /\ dry_run = FALSE
    /\ env = NoEnv
    /\ readmes \in R
    /\ fs \in [GeneratedFiles -> {NoFile, StaleFile}]
    /\ gitExists \in BOOLEAN
    /\ gitModified \in BOOLEAN
    /\ commitTime \in T
    /\ utcnow \in T
    /\ ~gitExists => /\ ~gitModified
                     /\ commitTime = CHOOSE t \in T : TRUE
                     /\ utcnow = CHOOSE t \in T : TRUE
    /\ pkgInfo \in P
    /\ v1 = NoVersion
    /\ v2 = NoVersion
    /\ state = EmptyState
    /\ base \in { Base(x) : x \in X }
    /\ trace = << >>
    /\ pending = NoPending
    /\ sdist = 0
    /\ upload = NoUpload
    /\ outcome = Running

----------------------------------------------------------------------------
(* setup() -> _state *)

\* state = {'version': _version(base)}
StateVersion ==
    /\ pc = "state_version"
    /\ LET a == version_from_pkg_info(pkgInfo)
           b == version_from_git(gitExists, gitModified, commitTime, utcnow)
           r == version(a, b)
       IN  /\ v1' = a
           /\ v2' = b
           /\ IF r.raised
              THEN /\ outcome' = Raised("ValueError",
                                  "Must have a git repo or an source distribution")
                   /\ pc' = "done"
                   /\ state' = state
              ELSE /\ state' = [state EXCEPT !.version = r.value]
                   /\ pc' = "state_readme"
                   /\ outcome' = outcome
    /\ UNCHANGED <<ret, cmd, dry_run, env, readmes, fs, gitExists, gitModified,
                   commitTime, utcnow, pkgInfo, base, trace, pending, sdist, upload>>

\* readme = _readme(); state['long_description'] = _read(readme)
StateReadme ==
    /\ pc = "state_readme"
    /\ LET rd == readme(readmes)
       IN  IF rd = ""
           THEN /\ outcome' = Raised("ValueError", "You need to create a README.rst")
                /\ pc' = "done"
                /\ state' = state
           ELSE /\ state' = [state EXCEPT !.readme = rd,
                                          !.long_description = ReadmeText[rd]]
                /\ pc' = "state_manifest"
                /\ outcome' = outcome
    /\ UNCHANGED <<ret, cmd, dry_run, env, readmes, fs, gitExists, gitModified,
                   commitTime, utcnow, pkgInfo, v1, v2, base, trace, pending,
                   sdist, upload>>

\* what a directory d can hold: files git does not track and files it tracks
DirContents(d) ==
    { [others |-> {}, tracked |-> {}],
      [others |-> {}, tracked |-> {<<d, "tracked">>}],
      [others |-> {<<d, "untracked">>}, tracked |-> {<<d, "tracked">>}] }

\* os.path.join(base['name'], which) if is_pd else which
find_dir(which) == IF which = PACKAGE_DATA THEN "pykern/package_data" ELSE which

\* dirs of _state: docs, tests, the extra directories, then each of
\* package_data and scripts that holds files
manifest_dirs(st, b) ==
    <<"docs", "tests">> \o b.extra_directories
    \o (IF st.package_data # {} THEN <<find_dir(PACKAGE_DATA)>> ELSE << >>)
    \o (IF st.scripts # {} THEN <<find_dir(SCRIPTS_DIR)>> ELSE << >>)

\* the rest of _state: the two _find_files calls, the manifest, base.update
StateManifest ==
    /\ pc = "state_manifest"
    /\ \E pd \in DirContents(find_dir(PACKAGE_DATA)),
          sc \in DirContents(find_dir(SCRIPTS_DIR)),
          how \in WriteOutcomes :
        LET fpd  == find_files(gitExists, pd.others, pd.tracked,
                               pd.others \cup pd.tracked)
            fsc  == find_files(gitExists, sc.others, sc.tracked,
                               sc.others \cup sc.tracked)
            st   == [state EXCEPT
                       !.package_data = fpd,
                       !.include_package_data = (fpd # {}),
                       !.scripts = fsc]
            text == manifest_lines(st.readme, manifest_dirs(st, base))
        IN  /\ state' = st
            /\ fs' = [fs EXCEPT !["MANIFEST.in"] = write(@, text, how)]
            /\ trace' = Append(trace, Event("write", "MANIFEST.in"))
            /\ IF how = "ok"
               THEN /\ base' = [base EXCEPT
                                  !.updated = TRUE,
                                  !.version = st.version,
                                  !.long_description = st.long_description,
                                  !.package_data = st.package_data,
                                  !.scripts = st.scripts,
                                  !.include_package_data = st.include_package_data]
                    /\ pc' = "dispatch"
                    /\ outcome' = outcome
               ELSE /\ base' = base
                    /\ pc' = "done"
                    /\ outcome' = Raised("IOError", "MANIFEST.in")
    /\ UNCHANGED <<ret, cmd, dry_run, env, readmes, gitExists, gitModified,
                   commitTime, utcnow, pkgInfo, v1, v2, pending, sdist, upload>>

----------------------------------------------------------------------------
(* setup(): the call of setuptools.setup *)

Commands == {"test", "tox", "pkdeploy", "sdist"}

\* what a subprocess.check_call can do
CallOutcomes == {"ok", "fail"}

\* where the command class of c starts
entry(c) ==
    CASE c = "test"     -> "test_start"
      [] c = "tox"      -> "tox_start"
      [] c = "pkdeploy" -> "deploy_start"
      [] OTHER          -> "done"

\* the rest of setup(): the optional _sphinx_apidoc, then setuptools.setup runs
\* the command named on the command line
Dispatch ==
    /\ pc = "dispatch"
    /\ \E c \in Commands, rtd \in {PyNone, "", "1"}, sphinx \in CallOutcomes :
        IF PyTruthy(rtd) /\ sphinx = "fail"
        THEN /\ outcome' = Raised("CalledProcessError", "sphinx-apidoc")
             /\ pc' = "done"
             /\ cmd' = cmd
        ELSE /\ cmd' = c
             /\ pc' = entry(c)
             /\ outcome' = IF entry(c) = "done" THEN Returned ELSE outcome
    /\ UNCHANGED <<ret, dry_run, env, readmes, fs, gitExists, gitModified,
                   commitTime, utcnow, pkgInfo, v1, v2, state, base, trace,
                   pending, sdist, upload>>

----------------------------------------------------------------------------
(* PyTest.run_tests *)

\* the dev-mode test and `import pytest`
PyTestStart ==
    /\ pc = "test_start"
    /\ \E v \in EnvValues("PKSETUP_PKDEPLOY_IS_DEV"), imp \in CallOutcomes :
        LET e == [NoEnv EXCEPT !["PKSETUP_PKDEPLOY_IS_DEV"] = v]
        IN  /\ env' = e
            /\ IF PyTruthy(getenv(e, "PKSETUP_PKDEPLOY_IS_DEV", PyFalse))
               THEN outcome' = Exit("0") /\ pc' = "done"
               ELSE IF imp = "fail"
               THEN outcome' = Raised("ImportError", "pytest") /\ pc' = "done"
               ELSE outcome' = outcome /\ pc' = "test_try"
    /\ UNCHANGED <<ret, cmd, dry_run, readmes, fs, gitExists, gitModified,
                   commitTime, utcnow, pkgInfo, v1, v2, state, base, trace,
                   pending, sdist, upload>>

pytest_ini_lines ==
    << Line("[pytest]", ""),
       Line("#", "OVERWRITTEN by pykern.pksetup every \"python setup.py test\" run"),
       Line("norecursedirs", "*_data *_work"),
       Line("addopts", "tests") >>

\* the try block: self._pytest_ini(); exit = pytest.main(self.pytest_args)
PyTestTry ==
    /\ pc = "test_try"
    /\ \E how \in WriteOutcomes, r \in {"0", "1", "raise"} :
        /\ fs' = [fs EXCEPT ![PYTEST_INI_FILE] = write(@, pytest_ini_lines, how)]
        /\ IF how # "ok"
           THEN /\ pending' = Raised("IOError", PYTEST_INI_FILE)
                /\ trace' = Append(trace, Event("write", PYTEST_INI_FILE))
           ELSE /\ pending' = IF r = "raise" THEN Raised("Exception", "pytest.main")
                                              ELSE Exit(r)
                /\ trace' = trace \o << Event("write", PYTEST_INI_FILE),
                                         Event("call", "pytest.main") >>
    /\ pc' = "test_finally"
    /\ UNCHANGED <<ret, cmd, dry_run, env, readmes, gitExists, gitModified,
                   commitTime, utcnow, pkgInfo, v1, v2, state, base, sdist,
                   upload, outcome>>

\* the event a _remove(path) leaves: the OSError of os.remove is swallowed
remove_event(f, path) ==
    IF os_remove_raises(f) THEN Event("remove_suppressed", path)
    ELSE Event("remove", path)

\* finally: _remove(PYTEST_INI_FILE); then sys.exit(exit) or the exception
PyTestFinally ==
    /\ pc = "test_finally"
    /\ fs' = [fs EXCEPT ![PYTEST_INI_FILE] = remove(@)]
    /\ trace' = Append(trace, remove_event(fs[PYTEST_INI_FILE], PYTEST_INI_FILE))
    /\ outcome' = pending
    /\ pc' = "done"
    /\ UNCHANGED <<ret, cmd, dry_run, env, readmes, gitExists, gitModified,
                   commitTime, utcnow, pkgInfo, v1, v2, state, base, pending,
                   sdist, upload>>

----------------------------------------------------------------------------
(* Tox.run *)

\* params = self._distribution_to_dict(); _sphinx_apidoc(params)
ToxStart ==
    /\ pc = "tox_start"
    /\ \E sphinx \in CallOutcomes :
        IF sphinx = "fail"
        THEN outcome' = Raised("CalledProcessError", "sphinx-apidoc") /\ pc' = "done"
        ELSE outcome' = outcome /\ pc' = "tox_try"
    /\ UNCHANGED <<ret, cmd, dry_run, env, readmes, fs, gitExists, gitModified,
                   commitTime, utcnow, pkgInfo, v1, v2, state, base, trace,
                   pending, sdist, upload>>

tox_ini_lines ==
    << Line("#", "OVERWRITTEN by pykern.pksetup every \"python setup.py tox\" run"),
       Line("[tox]", ""),
       Line("envlist", "py27"),
       Line("[testenv]", ""),
       Line("passenv", "PKSETUP_PKDEPLOY_IS_DEV"),
       Line("deps", "-rrequirements.txt"),
       Line("commands", "python setup.py build test"),
       Line("[testenv:docs]", ""),
       Line("basepython", "python"),
       Line("changedir", "docs"),
       Line("commands",
            "sphinx-build -b html -d {envtmpdir}/doctrees . {envtmpdir}/html") >>

\* the try block: _write(TOX_INI_FILE, ...); subprocess.check_call(['tox']).
\* The tox subprocess runs setup.py in this directory again, so it may write
\* MANIFEST.in anew (regen).
ToxTry ==
    /\ pc = "tox_try"
    /\ \E how \in WriteOutcomes, r \in CallOutcomes, regen \in BOOLEAN :
        /\ fs' = [fs EXCEPT
                    ![TOX_INI_FILE] = write(@, tox_ini_lines, how),
                    !["MANIFEST.in"] =
                        IF how = "ok" /\ regen
                        THEN File(manifest_lines(state.readme,
                                                 manifest_dirs(state, base)))
                        ELSE @]
        /\ IF how # "ok"
           THEN /\ pending' = Raised("IOError", TOX_INI_FILE)
                /\ trace' = Append(trace, Event("write", TOX_INI_FILE))
           ELSE /\ pending' = IF r = "fail" THEN Raised("CalledProcessError", "tox")
                                             ELSE NoPending
                /\ trace' = trace \o << Event("write", TOX_INI_FILE),
                                         Event("call", "tox"),
                                         Event(r, "tox") >>
    /\ pc' = "tox_finally"
    /\ UNCHANGED <<ret, cmd, dry_run, env, readmes, gitExists, gitModified,
                   commitTime, utcnow, pkgInfo, v1, v2, state, base, sdist,
                   upload, outcome>>

\* finally: _remove(TOX_INI_FILE); then the exception, or back to the caller
ToxFinally ==
    /\ pc = "tox_finally"
    /\ fs' = [fs EXCEPT ![TOX_INI_FILE] = remove(@)]
    /\ trace' = Append(trace, remove_event(fs[TOX_INI_FILE], TOX_INI_FILE))
    /\ IF pending # NoPending
       THEN outcome' = pending /\ pc' = "done"
       ELSE IF ret = "pkdeploy"
       THEN outcome' = outcome /\ pc' = "deploy_sdist"
       ELSE outcome' = Returned /\ pc' = "done"
    /\ UNCHANGED <<ret, cmd, dry_run, env, readmes, gitExists, gitModified,
                   commitTime, utcnow, pkgInfo, v1, v2, state, base, pending,
                   sdist, upload>>

----------------------------------------------------------------------------
(* PKDeploy.run *)

\* 'https://{}pypi.python.org/pypi'.format('test' if is_test else '')
repository(is_test) ==
    IF PyTruthy(is_test) THEN "https://testpypi.python.org/pypi"
    ELSE "https://pypi.python.org/pypi"

\* message of the ValueError __assert_env raises for key
must_be_set(key) ==
    CASE key = "PKSETUP_PYPI_PASSWORD" ->
             "$PKSETUP_PYPI_PASSWORD: environment variable must be set"
      [] key = "PKSETUP_PYPI_USER" ->
             "$PKSETUP_PYPI_USER: environment variable must be set"
      [] OTHER -> "environment variable must be set"

\* first_missing with the PKSETUP_PYPI_USER check left out
first_missing_password_only(e) ==
    IF assert_env(e, "PKSETUP_PYPI_PASSWORD", PyNone).raised
    THEN "PKSETUP_PYPI_PASSWORD"
    ELSE ""

\* the first required variable __assert_env finds missing, in the order run
\* reads them; "" when both are set
first_missing(e) ==
    IF assert_env(e, "PKSETUP_PYPI_PASSWORD", PyNone).raised
    THEN "PKSETUP_PYPI_PASSWORD"
    ELSE IF assert_env(e, "PKSETUP_PYPI_USER", PyNone).raised
    THEN "PKSETUP_PYPI_USER"
    ELSE ""

\* the dry-run test and the __assert_env calls that come before git clean
DeployStart ==
    /\ pc = "deploy_start"
    /\ \E d \in BOOLEAN, e \in Environments :
        /\ dry_run' = d
        /\ env' = e
        /\ IF d
           THEN outcome' = Raised("ValueError", "--dry-run not supported")
                /\ pc' = "done"
           ELSE IF first_missing(e) # ""
           THEN outcome' = Raised("ValueError", must_be_set(first_missing(e)))
                /\ pc' = "done"
           ELSE outcome' = outcome /\ pc' = "deploy_clean"
    /\ UNCHANGED <<ret, cmd, readmes, fs, gitExists, gitModified, commitTime,
                   utcnow, pkgInfo, v1, v2, state, base, trace, pending, sdist,
                   upload>>

\* run with the dev-mode test left out
is_dev_never(e) == FALSE

\* whether run skips git clean
is_dev(e) == PyTruthy(assert_env(e, "PKSETUP_PKDEPLOY_IS_DEV", PyFalse).value)

\* subprocess.check_call(['git', 'clean', '-dfx']) unless in dev mode, then
\* self.__run_cmd('tox') enters Tox.run.  git clean deletes the files git
\* does not track, MANIFEST.in among them when it is not checked in.
DeployClean ==
    /\ pc = "deploy_clean"
    /\ IF is_dev(env)
       THEN /\ pc' = "tox_start"
            /\ ret' = "pkdeploy"
            /\ UNCHANGED <<fs, trace, outcome>>
       ELSE \E r \in CallOutcomes, tracked \in BOOLEAN :
            /\ trace' = trace \o << Event("call", "git clean"),
                                     Event(r, "git clean") >>
            /\ IF r = "fail"
               THEN /\ outcome' = Raised("CalledProcessError", "git clean")
                    /\ pc' = "done"
                    /\ ret' = ret
                    /\ fs' = fs
               ELSE /\ outcome' = outcome
                    /\ pc' = "tox_start"
                    /\ ret' = "pkdeploy"
                    /\ fs' = IF tracked THEN fs
                             ELSE [fs EXCEPT !["MANIFEST.in"] = NoFile]
    /\ UNCHANGED <<cmd, dry_run, env, readmes, gitExists, gitModified,
                   commitTime, utcnow, pkgInfo, v1, v2, state, base, pending,
                   sdist, upload>>

\* the _read_pypirc result run hands to the upload command
read_pypirc(e) ==
    [run        |-> TRUE,
     username   |-> assert_env(e, "PKSETUP_PYPI_USER", PyNone).value,
     password   |-> assert_env(e, "PKSETUP_PYPI_PASSWORD", PyNone).value,
     realm      |-> "pypi",
     repository |-> repository(assert_env(e, "PKSETUP_PYPI_IS_TEST", PyFalse).value)]

\* sdist_ok accepting any non-empty glob result
sdist_ok_nonempty(n) == n >= 1

\* whether run goes on to upload with n sdist files found
sdist_ok(n) == n = 1

\* after tox: the sdist glob, the count check and self.__run_cmd('upload', ...)
DeploySdist ==
    /\ pc = "deploy_sdist"
    /\ \E n \in 0..MaxSdist, r \in CallOutcomes :
        /\ sdist' = n
        /\ IF ~sdist_ok(n)
           THEN /\ outcome' = Raised("ValueError", "should be exactly one sdist")
                /\ trace' = Append(trace, Event("glob", ".tox/dist/*-*.*"))
                /\ upload' = upload
           ELSE /\ upload' = read_pypirc(env)
                /\ trace' = trace \o << Event("glob", ".tox/dist/*-*.*"),
                                         Event("call", "upload"),
                                         Event(r, "upload") >>
                /\ outcome' = IF r = "fail" THEN Raised("Exception", "upload")
                                            ELSE Returned
    /\ pc' = "done"
    /\ UNCHANGED <<ret, cmd, dry_run, env, readmes, fs, gitExists, gitModified,
                   commitTime, utcnow, pkgInfo, v1, v2, state, base, pending>>

----------------------------------------------------------------------------
(* Specifications *)

\* PKG-INFO files this module's own builds leave: the version of a time in T
OwnPkgInfo(T) == { PkgInfoFile(v.int, v.frac, "") :
                     v \in { parse_version(strftime(t)) : t \in T } }

\* PKG-INFO files of other origin: versions the pattern accepts though no
\* build at a time in Timestamps wrote them, and versions it rejects
Date1 == <<2, 0, 1, 5, 0, 1, 0, 1>>
OtherPkgInfo ==
    { PkgInfoFile(Date1, <<1, 0, 0, 0, 0, 0, 0, 0, 1>>, ""),
      PkgInfoFile(Date1, <<1, 2>>, ""),
      PkgInfoFile(Date1, <<9, 3, 0, 0, 0>>, ".dev1"),
      PkgInfoFile(<<1>>, <<0>>, ""),
      PkgInfoFile(<<1>>, <<0>>, ".2") }

AllReadmes == SUBSET {"README.rst", "README.md", "README.txt"}

ExtraDirectories == { << >>, <<"examples">> }

\* a morning and a later time of the first day
TwoTimes == { t \in Timestamps : t.day = 1 /\ t.tod \in {<<9, 30, 0>>, <<10, 0, 0>>} }

\* the later one alone
OneTime == { t \in TwoTimes : t.tod = <<10, 0, 0>> }

\* The whole program: setup() in a working directory, then one command.
Init ==
    InitFrom(OneTime,
             {PkgInfoAbsent, PkgInfoFile(Date1, <<9, 3, 0, 0, 0>>, "")},
             {{}, {"README.md", "README.txt"}},
             {<< >>})

Next ==
    \/ StateVersion
    \/ StateReadme
    \/ StateManifest
    \/ Dispatch
    \/ PyTestStart
    \/ PyTestTry
    \/ PyTestFinally
    \/ ToxStart
    \/ ToxTry
    \/ ToxFinally
    \/ DeployStart
    \/ DeployClean
    \/ DeploySdist

Spec == Init /\ [][Next]_vars

\* _version alone, over every clock and PKG-INFO file of the model.
InitVersion ==
    InitFrom(Timestamps,
             {PkgInfoAbsent} \cup OwnPkgInfo(Timestamps) \cup OtherPkgInfo,
             {{"README.rst"}},
             {<< >>})

NextVersion == StateVersion

SpecVersion == InitVersion /\ [][NextVersion]_vars

\* _state alone (metadata assembly), over every set of README files.
InitState ==
    InitFrom(TwoTimes,
             {PkgInfoAbsent, PkgInfoFile(<<1>>, <<0>>, ""),
              PkgInfoFile(Date1, <<9, 3, 0, 0, 0>>, "")},
             AllReadmes,
             ExtraDirectories)

NextState ==
    \/ StateVersion
    \/ StateReadme
    \/ StateManifest

SpecState == InitState /\ [][NextState]_vars

----------------------------------------------------------------------------
(* Reading the trace *)

Happened(op, arg) == \E i \in 1..Len(trace) : trace[i] = Event(op, arg)

\* every occurrence of the first event comes before every one of the second
Before(op1, arg1, op2, arg2) ==
    \A i, j \in 1..Len(trace) :
        trace[i] = Event(op1, arg1) /\ trace[j] = Event(op2, arg2) => i < j

\* some occurrence of the first event comes before position j
HappenedBefore(op, arg, j) == \E i \in 1..(j - 1) : trace[i] = Event(op, arg)

\* PKDeploy.run has read its environment
DeployRead == cmd = "pkdeploy" /\ pc # "deploy_start"

----------------------------------------------------------------------------
(* Properties *)

\* C1: in PKDeploy.run, when PKSETUP_PYPI_PASSWORD or PKSETUP_PYPI_USER is not
\* set the command has raised (ValueError), and git clean, tox and upload have
\* not run.
C1_MissingEnvAborts ==
    DeployRead /\ (env["PKSETUP_PYPI_PASSWORD"] = Unset
                   \/ env["PKSETUP_PYPI_USER"] = Unset)
    => /\ pc = "done"
       /\ outcome.kind = "ValueError"
       /\ ~dry_run => outcome.msg \in
              { "$PKSETUP_PYPI_PASSWORD: environment variable must be set",
                "$PKSETUP_PYPI_USER: environment variable must be set" }
       /\ ~Happened("call", "git clean")
       /\ ~Happened("call", "tox")
       /\ ~Happened("call", "upload")
       /\ ~upload.run

\* C1 witness: a release run with the password set and the user missing ended
\* with the ValueError.
C1_Witness ==
    /\ DeployRead /\ pc = "done" /\ ~dry_run
    /\ env["PKSETUP_PYPI_PASSWORD"] = "secret"
    /\ env["PKSETUP_PYPI_USER"] = Unset
    /\ outcome = Raised("ValueError",
                        "$PKSETUP_PYPI_USER: environment variable must be set")

\* C2: in PKDeploy.run the upload runs only after tox ran and returned without
\* error and the glob matched exactly one sdist; a failed tox or another sdist
\* count ends the command with an exception and no upload; the steps come in
\* the order git clean, tox, sdist glob, upload.
C2_UploadOnlyAfterToxAndOneSdist ==
    cmd = "pkdeploy" =>
       /\ \A j \in 1..Len(trace) :
             trace[j] = Event("call", "upload") =>
                /\ HappenedBefore("ok", "tox", j)
                /\ HappenedBefore("glob", ".tox/dist/*-*.*", j)
                /\ sdist = 1
       /\ upload.run <=> Happened("call", "upload")
       /\ Happened("fail", "tox") \/ (Happened("glob", ".tox/dist/*-*.*") /\ sdist # 1)
             => /\ ~Happened("call", "upload")
                /\ pc # "tox_finally" => pc = "done" /\ outcome.kind \in
                       {"CalledProcessError", "ValueError"}
       /\ Before("call", "git clean", "call", "tox")
       /\ Before("ok", "git clean", "call", "tox")
       /\ Before("call", "tox", "glob", ".tox/dist/*-*.*")
       /\ Before("glob", ".tox/dist/*-*.*", "call", "upload")
       /\ Happened("call", "tox") /\ ~is_dev(env) => Happened("ok", "git clean")

\* C2 witness: a release run that cleaned, ran tox, found one sdist and
\* uploaded.
C2_Witness ==
    /\ cmd = "pkdeploy" /\ pc = "done" /\ outcome = Returned
    /\ Happened("ok", "git clean") /\ Happened("ok", "tox")
    /\ sdist = 1 /\ Happened("ok", "upload")

\* the command that writes f is past its finally clause
Ended(f) ==
    IF f = PYTEST_INI_FILE THEN pc # "test_finally" ELSE pc # "tox_finally"

\* C3: once PyTest.run_tests (Tox.run) is over, the pytest.ini (tox.ini) it
\* wrote or tried to write is gone and a _remove of it came after the write,
\* whatever the tool did and whether or not the write failed; the command ends
\* as its try block ended, also when os.remove raised for want of the file.
C3_ConfigFilesRemoved ==
    \A f \in {PYTEST_INI_FILE, TOX_INI_FILE} :
        Happened("write", f) /\ Ended(f) =>
           /\ ~fs[f].exists
           /\ \A i \in 1..Len(trace) :
                 trace[i] = Event("write", f) =>
                    \E j \in (i + 1)..Len(trace) :
                        trace[j] \in {Event("remove", f), Event("remove_suppressed", f)}
           /\ pending # NoPending => pc = "done" /\ outcome = pending
           /\ pending = NoPending /\ pc = "done" => outcome.kind \in
                 {"returned", "ValueError", "Exception"}

\* C3 witness: pytest.main raised, pytest.ini was removed and the exception
\* went on.
C3_Witness ==
    /\ cmd = "test" /\ pc = "done"
    /\ outcome = Raised("Exception", "pytest.main")
    /\ Happened("remove", PYTEST_INI_FILE)

\* setup() is over without an exception
SetupFinished == pc = "done" /\ outcome.kind \in {"returned", "exit"}

\* C4 as stated: once setup() has finished, MANIFEST.in has been removed.
C4_ManifestRemoved == SetupFinished => ~fs["MANIFEST.in"].exists

\* C4 amended: setup() never removes MANIFEST.in: the only thing it does to
\* the file is write it, and from the moment _state has written it the file is
\* there with the text _state wrote, unless the release command's git clean ran.
C4_ManifestKept ==
    /\ \A i \in 1..Len(trace) :
          trace[i].arg = "MANIFEST.in" => trace[i].op = "write"
    /\ base.updated /\ ~Happened("ok", "git clean") =>
          fs["MANIFEST.in"] =
              File(manifest_lines(state.readme, manifest_dirs(state, base)))

\* C4 witness: the test command ran to its end, pytest.ini was removed and
\* MANIFEST.in is still there.
C4_Witness ==
    /\ SetupFinished /\ cmd = "test"
    /\ Happened("remove", PYTEST_INI_FILE)
    /\ fs["MANIFEST.in"].exists

\* a > b for two version strings read as decimal numbers, exactly
DecimalGreater(a, b) ==
    LET w  == IF Len(a.frac) > Len(b.frac) THEN Len(a.frac) ELSE Len(b.frac)
        fa == DigitsToNat(a.frac) * Pow10(w - Len(a.frac))
        fb == DigitsToNat(b.frac) * Pow10(w - Len(b.frac))
        ia == DigitsToNat(a.int)
        ib == DigitsToNat(b.int)
    IN  ia > ib \/ (ia = ib /\ fa > fb)

\* _version has run
VersionRan == pc # "state_version"

\* _version raised its ValueError
VersionRaised ==
    /\ pc = "done"
    /\ outcome = Raised("ValueError", "Must have a git repo or an source distribution")
    /\ state.version = NoVersion

\* C5 as stated: _version returns v1 when only v1 exists, v2 when only v2
\* exists, of two the one that is greater as a decimal number (v2 when they
\* are equal), and raises ValueError when neither exists.
C5_DecimalGreaterWins ==
    VersionRan =>
       /\ Truthy(v1) /\ ~Truthy(v2) => state.version = v1
       /\ ~Truthy(v1) /\ Truthy(v2) => state.version = v2
       /\ Truthy(v1) /\ Truthy(v2) =>
             state.version = IF DecimalGreater(v1, v2) THEN v1 ELSE v2
       /\ ~Truthy(v1) /\ ~Truthy(v2) => VersionRaised

\* the version this module derives for a commit or clock time t
DerivedVersion(t) == parse_version(strftime(t))

\* the time _version_from_git takes its version from
GitTime == IF gitModified THEN utcnow ELSE commitTime

\* C6 as stated: when PKG-INFO holds the version this module derived at a time
\* t1 and the repository gives the time t2, _version returns the version of
\* the later of t1 and t2.
C6_ChronologicallyNewerWins ==
    VersionRan /\ gitExists =>
       \A t1 \in Timestamps :
           pkgInfo = PkgInfoFile(DerivedVersion(t1).int, DerivedVersion(t1).frac, "") =>
              /\ Earlier(t1, GitTime) => state.version = DerivedVersion(GitTime)
              /\ Earlier(GitTime, t1) => state.version = DerivedVersion(t1)

\* C7 as stated: every version _version returns is eight digits, a dot and six
\* digits.
C7_VersionFormat ==
    VersionRan /\ ~VersionRaised =>
       /\ Len(state.version.int) = 8
       /\ Len(state.version.frac) = 6

\* PKG-INFO is there and records a version the pattern accepts
PkgInfoHasVersion == pkgInfo.exists /\ version_re_match(pkgInfo)

PreferredReadme ==
    IF "README.rst" \in readmes THEN "README.rst"
    ELSE IF "README.md" \in readmes THEN "README.md"
    ELSE IF "README.txt" \in readmes THEN "README.txt"
    ELSE ""

\* README names the include lines of a manifest name
IncludedReadmes(lines) ==
    { lines[i].arg : i \in { k \in 1..Len(lines) :
                               /\ lines[k].op = "include"
                               /\ lines[k].arg \in DOMAIN ReadmeText } }

\* C9: _readme returns the first of README.rst, README.md, README.txt that is
\* present and raises ValueError when none is; a manifest _state wrote
\* includes that README and no other, and the long description is its text.
C9_ReadmeChoice ==
    pc \notin {"state_version", "state_readme"} /\ ~VersionRaised =>
       /\ state.readme = PreferredReadme
       /\ PreferredReadme = "" <=>
             outcome = Raised("ValueError", "You need to create a README.rst")
       /\ PreferredReadme # "" =>
             state.long_description = ReadmeText[PreferredReadme]
       /\ base.updated =>
             /\ IncludedReadmes(fs["MANIFEST.in"].lines) = {PreferredReadme}
             /\ base.long_description = ReadmeText[PreferredReadme]

\* C9 witness: with README.md and README.txt present the manifest was written
\* for README.md.
C9_Witness ==
    /\ readmes = {"README.md", "README.txt"}
    /\ base.updated
    /\ Line("include", "README.md") \in
           { fs["MANIFEST.in"].lines[i] : i \in 1..Len(fs["MANIFEST.in"].lines) }

\* C10 as stated: the upload goes to the test index when PKSETUP_PYPI_IS_TEST
\* is set, whatever its value, and to pypi.python.org otherwise, with the user
\* name and password of the environment.
C10_TestIndexWheneverSet ==
    upload.run =>
       /\ upload.repository =
             IF env["PKSETUP_PYPI_IS_TEST"] # Unset
             THEN "https://testpypi.python.org/pypi"
             ELSE "https://pypi.python.org/pypi"
       /\ upload.username = env["PKSETUP_PYPI_USER"]
       /\ upload.password = env["PKSETUP_PYPI_PASSWORD"]

\* PKSETUP_PKDEPLOY_IS_DEV as the running command read it
DevFlag == env["PKSETUP_PKDEPLOY_IS_DEV"]

\* PKDeploy.run is past the dry-run test and the required variables
DeployChecked == DeployRead /\ ~dry_run /\ first_missing(env) = ""

\* PyTest.run_tests has read the flag
TestRead == cmd = "test" /\ pc # "test_start"

\* what C11 says of a flag set to a non-empty value: PKDeploy.run runs no git
\* clean and does not skip tox, the sdist glob or the upload; PyTest.run_tests
\* exits 0 with pytest not called and pytest.ini not written
DevModeSkips ==
    /\ DeployChecked /\ DevFlag \notin {Unset, ""} =>
          /\ ~Happened("call", "git clean")
          /\ pc = "done" =>
                \/ outcome = Raised("CalledProcessError", "sphinx-apidoc")
                \/ Happened("write", TOX_INI_FILE)
          /\ pc = "done" /\ Happened("ok", "tox") =>
                Happened("glob", ".tox/dist/*-*.*")
          /\ pc = "done" /\ Happened("ok", "tox") /\ sdist = 1 =>
                Happened("call", "upload")
    /\ TestRead /\ DevFlag \notin {Unset, ""} =>
          /\ pc = "done"
          /\ outcome = Exit("0")
          /\ ~Happened("call", "pytest.main")
          /\ ~Happened("write", PYTEST_INI_FILE)
          /\ fs[PYTEST_INI_FILE] \in {NoFile, StaleFile}

\* what C11 says of git clean with the flag unset: it has run, and run well,
\* before tox is entered
UnsetFlagCleans ==
    DeployChecked /\ DevFlag = Unset /\ pc # "deploy_clean" =>
       /\ Happened("call", "git clean")
       /\ pc # "done" => Happened("ok", "git clean")
       /\ \A j \in 1..Len(trace) :
             trace[j] = Event("call", "tox") => HappenedBefore("ok", "git clean", j)

ReadmeRaised ==
    /\ pc = "done"
    /\ outcome = Raised("ValueError", "You need to create a README.rst")

\* number of _write calls on MANIFEST.in so far
ManifestWrites ==
    Cardinality({ i \in 1..Len(trace) : trace[i] = Event("write", "MANIFEST.in") })

\* a step of _state that ends in, or comes before, the resolving of the
\* version and the README
ResolvingStep ==
    \/ pc = "state_version"
    \/ pc = "state_readme"

\* C12: _state writes MANIFEST.in only once version and README are resolved.
\* The steps that resolve them, raising or not, leave MANIFEST.in and the
\* metadata record as they were; when _version or _readme has raised,
\* MANIFEST.in is the file (or the absence) the run started with, never
\* written, and the metadata record is not updated; when _state has returned,
\* MANIFEST.in was written exactly once and holds the new manifest and
\* nothing else.
C12_ManifestOnlyAfterResolve ==
    /\ [](VersionRaised \/ ReadmeRaised =>
             /\ ManifestWrites = 0
             /\ fs["MANIFEST.in"] \in {NoFile, StaleFile}
             /\ base = Base(base.extra_directories))
    /\ [](pc = "dispatch" =>
             /\ ManifestWrites = 1
             /\ base.updated
             /\ fs["MANIFEST.in"] =
                   File(manifest_lines(state.readme, manifest_dirs(state, base))))
    /\ [](base.updated => ManifestWrites = 1)
    /\ [][ResolvingStep => /\ fs'["MANIFEST.in"] = fs["MANIFEST.in"]
                           /\ base' = base
                           /\ trace' = trace]_vars

\* C12 witness: _readme raised and the MANIFEST.in of an earlier run is still
\* as it was.
C12_Witness ==
    /\ ReadmeRaised
    /\ fs["MANIFEST.in"] = StaleFile
    /\ ~base.updated

====
